---- MODULE Spec2Model ----
(***************************************************************************)
(* The property page (frontend/src/pages/property/[id].tsx): the line-item *)
(* registry, the value resolver, the pending-edit store, the payload       *)
(* builder and the fetch / recalculate / save request cycles.  Further     *)
(* down: the address box of the home and search pages (pages/index.tsx,    *)
(* pages/search/index.tsx) and the investment parameters of the account    *)
(* page (pages/mypage.tsx) with its two key-casing converters.             *)
(***************************************************************************)
EXTENDS Bags, FiniteSets, Integers, Sequences, TLC

(***************************************************************************)
(* JavaScript values.  A number is fixed-point: Num(n) stands for n / Unit. *)
(* Strings, NaN, undefined and null are values of their own.               *)
(***************************************************************************)
Unit == 100 * 1000

Num(n) == [num |-> n]

Str(s) == [str |-> s]

NaN == [nan |-> TRUE]

Undefined == [undefined |-> TRUE]

Null == [null |-> TRUE]

IsNum(v) == DOMAIN v = {"num"}

\* a ?? b
Nullish(a, b) == IF a \in {Undefined, Null} THEN b ELSE a

\* a || b
Falsy(a) == a \in {Undefined, Null, NaN, Num(0), Str("")}

OrElse(a, b) == IF Falsy(a) THEN b ELSE a

\* obj[key] on a plain object
Get(obj, key) == IF key \in DOMAIN obj THEN obj[key] ELSE Undefined

EmptyObject == [k \in {} |-> Undefined]

(***************************************************************************)
(* String helpers: toLowerCase and the two replace() calls.                *)
(***************************************************************************)
UpperLetters == "ABCDEFGHIJKLMNOPQRSTUVWXYZ"

LowerLetters == "abcdefghijklmnopqrstuvwxyz"

Digits == "0123456789"

Ch(s, i) == SubSeq(s, i, i)

CharsOf(s) == {Ch(s, i) : i \in 1..Len(s)}

LowerOf(c) ==
  IF c \in CharsOf(UpperLetters)
    THEN Ch(LowerLetters, CHOOSE i \in 1..Len(UpperLetters) : Ch(UpperLetters, i) = c)
    ELSE c

\* s with every character c replaced by f[c]
RECURSIVE ReplaceChars(_, _)
ReplaceChars(s, f) ==
  IF s = "" THEN "" ELSE f[Ch(s, 1)] \o ReplaceChars(SubSeq(s, 2, Len(s)), f)

toLowerCase(s) == ReplaceChars(s, [c \in CharsOf(s) |-> LowerOf(c)])

\* a replace that turns each run of characters outside [a-z0-9] into one '_'
RECURSIVE ReplaceNonAlnumRuns(_)
ReplaceNonAlnumRuns(s) ==
  IF s = "" THEN ""
  ELSE LET c    == Ch(s, 1)
           rest == SubSeq(s, 2, Len(s))
           kept(d) == d \in CharsOf(LowerLetters) \cup CharsOf(Digits)
       IN  IF kept(c) THEN c \o ReplaceNonAlnumRuns(rest)
           ELSE IF rest # "" /\ ~kept(Ch(rest, 1)) THEN ReplaceNonAlnumRuns(rest)
           ELSE "_" \o ReplaceNonAlnumRuns(rest)

\* .replace(/[^a-z0-9]/g, '_')
ReplaceNonAlnum(s) ==
  ReplaceChars(s, [c \in CharsOf(s) |->
                     IF c \in CharsOf(LowerLetters) \cup CharsOf(Digits) THEN c ELSE "_"])

\* \w
IsWordChar(c) ==
  c \in CharsOf(LowerLetters) \cup CharsOf(UpperLetters) \cup CharsOf(Digits) \cup {"_"}

\* .replace(/(?:^\w|[A-Z]|\b\w)/g, letter => letter.toLowerCase()), from index i
\* on: a capital, or a word character that starts a word, is lowercased in place
RECURSIVE LowercaseMatches(_, _)
LowercaseMatches(s, i) ==
  IF i > Len(s) THEN ""
  ELSE LET c == Ch(s, i)
           startsWord == IsWordChar(c) /\ (i = 1 \/ ~IsWordChar(Ch(s, i - 1)))
       IN  (IF c \in CharsOf(UpperLetters) \/ startsWord THEN LowerOf(c) ELSE c)
             \o LowercaseMatches(s, i + 1)

\* .replace(/ /g, '_')
ReplaceSpaces(s) ==
  ReplaceChars(s, [c \in CharsOf(s) |-> IF c = " " THEN "_" ELSE c])

(***************************************************************************)
(* The registry.                                                           *)
(***************************************************************************)
Item(n, vt, s, f) == [name |-> n, value_type |-> vt, section |-> s, format |-> f]

groupedItems ==
  <<
    [section |-> "Property Info", items |-> <<
      Item("Fair Market Value", "API Data", "Property Info", "currency"),
      Item("Vacancy Rate", "user input", "Property Info", "percentage"),
      Item("Management Rate", "user input", "Property Info", "percentage"),
      Item("Advertising Cost per Vacancy", "user input", "Property Info", "currency"),
      Item("Number of Units", "API Data", "Property Info", "number"),
      Item("Annual Appreciation Rate", "user input", "Property Info", "percentage")
    >>],
    [section |-> "Purchase Info", items |-> <<
      Item("Offer Price", "API Data", "Purchase Info", "currency"),
      Item("Repairs", "user input", "Purchase Info", "currency"),
      Item("Repairs Contingency", "user input", "Purchase Info", "currency"),
      Item("Lender Fee", "user input", "Purchase Info", "currency"),
      Item("Broker Fee", "user input", "Purchase Info", "currency"),
      Item("Environmentals", "user input", "Purchase Info", "currency"),
      Item("Inspections", "user input", "Purchase Info", "currency"),
      Item("Appraisals", "user input", "Purchase Info", "currency"),
      Item("Misc", "user input", "Purchase Info", "currency"),
      Item("Transfer Tax", "API Data", "Purchase Info", "currency"),
      Item("Legal", "user input", "Purchase Info", "currency"),
      Item("Real Purchase Price (RPP)", "Calculated", "Purchase Info", "currency")
    >>],
    [section |-> "Financing (Monthly)", items |-> <<
      Item("1st Mtg Principle Borrowed", "Calculated", "Financing (Monthly)", "currency"),
      Item("1st Mtg Interest Rate", "API Data", "Financing (Monthly)", "percentage"),
      Item("1st Mtg Amortization Period", "user input", "Financing (Monthly)", "number"),
      Item("1st Mtg CMHC Fee", "user input", "Financing (Monthly)", "percentage"),
      Item("1st Mtg Total Principle", "Calculated", "Financing (Monthly)", "currency"),
      Item("1st Mtg Total Monthly Payment", "Calculated", "Financing (Monthly)", "currency"),
      Item("2nd Mtg Principle Amount", "user input", "Financing (Monthly)", "currency"),
      Item("2nd Mtg Interest Rate", "user input", "Financing (Monthly)", "percentage"),
      Item("2nd Mtg Amortization Period", "user input", "Financing (Monthly)", "number"),
      Item("2nd Mtg Total Monthly Payment", "Calculated", "Financing (Monthly)", "currency"),
      Item("Interest Only Principle Amount", "user input", "Financing (Monthly)", "currency"),
      Item("Interest Only Interest Rate", "user input", "Financing (Monthly)", "percentage"),
      Item("Interest Only Total Monthly Payment", "Calculated", "Financing (Monthly)", "currency"),
      Item("Other Monthly Financing Costs", "user input", "Financing (Monthly)", "currency"),
      Item("Cash Required to Close", "Calculated", "Financing (Monthly)", "currency")
    >>],
    [section |-> "Income (Annual)", items |-> <<
      Item("Gross Rents", "API Data", "Income (Annual)", "currency"),
      Item("Parking", "user input", "Income (Annual)", "currency"),
      Item("Storage", "user input", "Income (Annual)", "currency"),
      Item("Laundry / Vending", "user input", "Income (Annual)", "currency"),
      Item("Other Income", "user input", "Income (Annual)", "currency"),
      Item("Total Income", "Calculated", "Income (Annual)", "currency"),
      Item("Vacancy Loss", "Calculated", "Income (Annual)", "currency"),
      Item("Effective Gross Income", "Calculated", "Income (Annual)", "currency")
    >>],
    [section |-> "Operating Expenses (Annual)", items |-> <<
      Item("Property Taxes", "API Data", "Operating Expenses (Annual)", "currency"),
      Item("Insurance", "API Data", "Operating Expenses (Annual)", "currency"),
      Item("Repairs", "user input", "Operating Expenses (Annual)", "currency"),
      Item("Electricity", "user input", "Operating Expenses (Annual)", "currency"),
      Item("Gas", "user input", "Operating Expenses (Annual)", "currency"),
      Item("Lawn / Snow Maintenance", "user input", "Operating Expenses (Annual)", "currency"),
      Item("Water / Sewer", "user input", "Operating Expenses (Annual)", "currency"),
      Item("Cable", "user input", "Operating Expenses (Annual)", "currency"),
      Item("Management", "Calculated", "Operating Expenses (Annual)", "currency"),
      Item("Caretaking", "user input", "Operating Expenses (Annual)", "currency"),
      Item("Advertising", "Calculated", "Operating Expenses (Annual)", "currency"),
      Item("Association Fees", "API Data", "Operating Expenses (Annual)", "currency"),
      Item("Pest Control", "Calculated", "Operating Expenses (Annual)", "currency"),
      Item("Security", "Calculated", "Operating Expenses (Annual)", "currency"),
      Item("Trash Removal", "user input", "Operating Expenses (Annual)", "currency"),
      Item("Miscellaneous", "user input", "Operating Expenses (Annual)", "currency"),
      Item("Common Area Maintenance", "user input", "Operating Expenses (Annual)", "currency"),
      Item("Capital Improvements", "user input", "Operating Expenses (Annual)", "currency"),
      Item("Accounting", "user input", "Operating Expenses (Annual)", "currency"),
      Item("Legal", "user input", "Operating Expenses (Annual)", "currency"),
      Item("Bad Debts", "user input", "Operating Expenses (Annual)", "currency"),
      Item("Other Expenses", "user input", "Operating Expenses (Annual)", "currency"),
      Item("Evictions", "Calculated", "Operating Expenses (Annual)", "currency"),
      Item("Total Expenses", "Calculated", "Operating Expenses (Annual)", "currency")
    >>],
    [section |-> "Net Operating Income (Annual)", items |-> <<
      Item("Net Operating Income", "Calculated", "Net Operating Income (Annual)", "currency")
    >>],
    [section |-> "Cash Requirements", items |-> <<
      Item("Deposit(s) made with Offer", "user input", "Cash Requirements", "currency"),
      Item("Less Pro-Ration of Rents", "user input", "Cash Requirements", "currency"),
      Item("Cash Required to Close", "Calculated", "Cash Requirements", "currency"),
      Item("Total Cash Required", "Calculated", "Cash Requirements", "currency")
    >>],
    [section |-> "Cashflow Summary (Annual)", items |-> <<
      Item("Effective Gross Income", "Calculated", "Cashflow Summary (Annual)", "currency"),
      Item("Operating Expenses", "Calculated", "Cashflow Summary (Annual)", "currency"),
      Item("Net Operating Income", "Calculated", "Cashflow Summary (Annual)", "currency"),
      Item("Debt Servicing Costs", "Calculated", "Cashflow Summary (Annual)", "currency"),
      Item("Annual Profit or Loss", "Calculated", "Cashflow Summary (Annual)", "currency"),
      Item("Total Monthly Profit or Loss", "Calculated", "Cashflow Summary (Annual)", "currency"),
      Item("Cashflow per Unit per Month", "Calculated", "Cashflow Summary (Annual)", "currency")
    >>],
    [section |-> "Quick Analysis", items |-> <<
      Item("1st Mortgage LTV", "Calculated", "Quick Analysis", "percentage"),
      Item("1st Mortgage LTPP", "Calculated", "Quick Analysis", "percentage"),
      Item("2nd Mortgage LTV", "Calculated", "Quick Analysis", "percentage"),
      Item("2nd Mortgage LTPP", "Calculated", "Quick Analysis", "percentage"),
      Item("Cap Rate on PP", "Calculated", "Quick Analysis", "percentage"),
      Item("Cap Rate on FMV", "Calculated", "Quick Analysis", "percentage"),
      Item("Average Rent", "Calculated", "Quick Analysis", "currency"),
      Item("GRM", "Calculated", "Quick Analysis", "number"),
      Item("DCR", "Calculated", "Quick Analysis", "number"),
      Item("Cash on Cash ROI", "Calculated", "Quick Analysis", "percentage"),
      Item("Equity ROI (After 1 Year)", "Calculated", "Quick Analysis", "percentage"),
      Item("Appreciation ROI (After 1 Year)", "Calculated", "Quick Analysis", "percentage"),
      Item("Total ROI (After 1 Year)", "Calculated", "Quick Analysis", "percentage"),
      Item("Forced App. ROI (After 1 Year)", "Calculated", "Quick Analysis", "percentage"),
      Item("Expense to Income Ratio", "Calculated", "Quick Analysis", "percentage")
    >>]
  >>

\* the override table without the entries for the names that start with an
\* ordinal ('1st ...', '2nd ...')
keyMappingsWithoutOrdinals ==
     ("advertising_cost_per_vacancy" :> "advertising_cost_per_vacancy")
  @@ ("laundry___vending" :> "laundry_vending")
  @@ ("lawn___snow_maintenance" :> "lawn_maintenance")
  @@ ("water___sewer" :> "water_sewer")
  @@ ("deposit_s__made_with_offer" :> "deposit_with_offer")
  @@ ("interest_only_principle_amount" :> "interest_only_principle")
  @@ ("interest_only_interest_rate" :> "interest_only_rate")
  @@ ("other_monthly_financing_costs" :> "other_monthly_financing")
  @@ ("annual_appreciation_rate" :> "annual_appreciation_rate")

keyMappings ==
     ("advertising_cost_per_vacancy" :> "advertising_cost_per_vacancy")
  @@ ("laundry___vending" :> "laundry_vending")
  @@ ("lawn___snow_maintenance" :> "lawn_maintenance")
  @@ ("water___sewer" :> "water_sewer")
  @@ ("deposit_s__made_with_offer" :> "deposit_with_offer")
  @@ ("interest_only_principle_amount" :> "interest_only_principle")
  @@ ("interest_only_interest_rate" :> "interest_only_rate")
  @@ ("other_monthly_financing_costs" :> "other_monthly_financing")
  @@ ("2nd_mtg_principle_amount" :> "second_mtg_principle")
  @@ ("2nd_mtg_interest_rate" :> "second_mtg_interest_rate")
  @@ ("2nd_mtg_amortization_period" :> "second_mtg_amortization")
  @@ ("1st_mtg_amortization_period" :> "first_mtg_amortization_period")
  @@ ("1st_mtg_cmhc_fee" :> "first_mtg_cmhc_fee")
  @@ ("annual_appreciation_rate" :> "annual_appreciation_rate")

calculatedKeyMappings ==
     ("Real Purchase Price (RPP)" :> "Real Purchase Price")
  @@ ("1st Mtg Principle Borrowed" :> "First Mortgage Principle Borrowed")
  @@ ("1st Mtg Total Principle" :> "First Mortgage Total Principle")
  @@ ("1st Mtg Total Monthly Payment" :> "First Mortgage Total Monthly Payment")
  @@ ("2nd Mtg Total Monthly Payment" :> "Second Mortgage Total Monthly Payment")
  @@ ("Vacancy Loss" :> "Vacancy Loss Percentage")
  @@ ("1st Mortgage LTV" :> "First Mortgage LTV")
  @@ ("1st Mortgage LTPP" :> "First Mortgage LTPP")
  @@ ("2nd Mortgage LTV" :> "Second Mortgage LTV")
  @@ ("2nd Mortgage LTPP" :> "Second Mortgage LTPP")
  @@ ("Equity ROI (After 1 Year)" :> "Equity ROI after 1 Year")
  @@ ("Appreciation ROI (After 1 Year)" :> "Appreciation ROI after 1 Year")
  @@ ("Total ROI (After 1 Year)" :> "Total ROI after 1 Year")
  @@ ("Forced App. ROI (After 1 Year)" :> "Forced App ROI after 1 Year")

userInputMappings ==
     ("vacancy_rate" :> "vacancy_rate")
  @@ ("management_rate" :> "management_rate")
  @@ ("advertising_cost_per_vacancy" :> "advertising_cost_per_vacancy")
  @@ ("annual_appreciation_rate" :> "annual_appreciation_rate")
  @@ ("repairs" :> "repairs")
  @@ ("repairs_contingency" :> "repairs_contingency")
  @@ ("lender_fee" :> "lender_fee")
  @@ ("broker_fee" :> "broker_fee")
  @@ ("environmentals" :> "environmentals")
  @@ ("inspections" :> "inspections")
  @@ ("appraisals" :> "appraisals")
  @@ ("misc" :> "misc")
  @@ ("legal" :> "legal")
  @@ ("first_mtg_amortization_period" :> "first_mtg_amortization_period")
  @@ ("first_mtg_cmhc_fee" :> "first_mtg_cmhc_fee")
  @@ ("second_mtg_principle" :> "second_mtg_principle")
  @@ ("second_mtg_interest_rate" :> "second_mtg_interest_rate")
  @@ ("second_mtg_amortization" :> "second_mtg_amortization")
  @@ ("interest_only_principle" :> "interest_only_principle")
  @@ ("interest_only_rate" :> "interest_only_rate")
  @@ ("other_monthly_financing" :> "other_monthly_financing")
  @@ ("parking" :> "parking")
  @@ ("storage" :> "storage")
  @@ ("laundry_vending" :> "laundry_vending")
  @@ ("other_income" :> "other_income")
  @@ ("electricity" :> "electricity")
  @@ ("gas" :> "gas")
  @@ ("lawn_maintenance" :> "lawn_maintenance")
  @@ ("water_sewer" :> "water_sewer")
  @@ ("cable" :> "cable")
  @@ ("caretaking" :> "caretaking")
  @@ ("trash_removal" :> "trash_removal")
  @@ ("miscellaneous" :> "miscellaneous")
  @@ ("common_area_maintenance" :> "common_area_maintenance")
  @@ ("capital_improvements" :> "capital_improvements")
  @@ ("accounting" :> "accounting")
  @@ ("bad_debts" :> "bad_debts")
  @@ ("other_expenses" :> "other_expenses")
  @@ ("deposit_with_offer" :> "deposit_with_offer")
  @@ ("less_pro_ration_of_rents" :> "less_pro_ration_of_rents")


AllItems ==
  UNION {{groupedItems[i].items[j] : j \in 1..Len(groupedItems[i].items)} :
         i \in 1..Len(groupedItems)}

UserInputItems == {it \in AllItems : it.value_type = "user input"}

ApiDataItems == {it \in AllItems : it.value_type = "API Data"}

CalculatedItems == {it \in AllItems : it.value_type = "Calculated"}

\* the items renderValue shows as an <input>
EditableItems == {it \in AllItems : it.value_type \in {"API Data", "user input"}}

\* the names whose percentage input is shown multiplied by 100
\* the list of renderValue without the CMHC fee
PercentScaledNamesWithoutFee ==
  {"Vacancy Rate", "Management Rate", "1st Mtg Interest Rate",
   "2nd Mtg Interest Rate", "Interest Only Interest Rate",
   "Annual Appreciation Rate"}

PercentScaledNames ==
  {"Vacancy Rate", "Management Rate", "1st Mtg Interest Rate",
   "2nd Mtg Interest Rate", "1st Mtg CMHC Fee", "Interest Only Interest Rate",
   "Annual Appreciation Rate"}

(***************************************************************************)
(* Numbers.                                                                *)
(***************************************************************************)
\* Math.round: to the nearest integer, halves up
MathRound(v) ==
  IF IsNum(v) THEN Num(((v.num + Unit \div 2) \div Unit) * Unit) ELSE NaN

\* x / 100
DivideBy100(v) == IF IsNum(v) THEN Num(v.num \div 100) ELSE NaN

\* The text of an <input type="number">: "" when it holds no valid number,
\* otherwise the decimal text of one.  NumStr(n) is the decimal text of n / Unit.
NumStr(n) == [numstr |-> n]

parseFloat(text) == IF DOMAIN text = {"numstr"} THEN Num(text.numstr) ELSE NaN

\* Number.prototype.toString
toString(v) == IF IsNum(v) THEN NumStr(v.num) ELSE Str("NaN")

(***************************************************************************)
(* The value resolver.                                                     *)
(***************************************************************************)
ErrorLoadingData == Str("Error loading data")

ItemNames == {it.name : it \in AllItems} \cup {"Address"}

\* const key = item.name.toLowerCase().replace(...).replace(...)
normalizedKey(name) == LowercaseMatches(ReplaceNonAlnum(toLowerCase(name)), 1)

\* the key getValue derives from a 'user input' display name
deriveUserInputKey(name) ==
  LET key == normalizedKey(name)
  IN  IF key \in DOMAIN keyMappings THEN keyMappings[key] ELSE key

\* deriveUserInputKey, tabulated over the registry's names
userInputKeys == [name \in ItemNames |-> deriveUserInputKey(name)]

userInputKey(name) == userInputKeys[name]

calculatedKey(name) ==
  IF name \in DOMAIN calculatedKeyMappings THEN calculatedKeyMappings[name] ELSE name

\* the api_data key that getValue's switch reads for a display name
apiDataKey ==
  ("Address" :> "address") @@ ("Fair Market Value" :> "fair_market_value")
    @@ ("Number of Units" :> "number_of_units") @@ ("Offer Price" :> "offer_price")
    @@ ("1st Mtg Interest Rate" :> "first_mtg_interest_rate")
    @@ ("Property Taxes" :> "property_taxes") @@ ("Insurance" :> "insurance")
    @@ ("Association Fees" :> "association_fees") @@ ("Gross Rents" :> "gross_rents")
    @@ ("Transfer Tax" :> "transfer_tax")

getApiData(name, api_data) ==
  CASE name = "Address" -> OrElse(Get(api_data, "address"), Str("Address not available"))
    [] name = "Fair Market Value" -> Get(api_data, "fair_market_value")
    [] name = "Number of Units" -> OrElse(Get(api_data, "number_of_units"), Num(Unit))
    [] name = "Offer Price" -> Get(api_data, "offer_price")
    [] name = "1st Mtg Interest Rate" -> OrElse(Get(api_data, "first_mtg_interest_rate"), Num(0))
    [] name = "Property Taxes" -> MathRound(OrElse(Get(api_data, "property_taxes"), Num(0)))
    [] name = "Insurance" -> OrElse(Get(api_data, "insurance"), Num(0))
    [] name = "Association Fees" -> OrElse(Get(api_data, "association_fees"), Num(0))
    [] name = "Gross Rents" -> OrElse(Get(api_data, "gross_rents"), Num(0))
    [] name = "Transfer Tax" -> OrElse(Get(api_data, "transfer_tax"), Num(0))
    [] OTHER -> Num(0)

\* a getValue for which a calculated key the snapshot lacks is an error
getValueAbsentIsError(item, property) ==
  CASE item.value_type = "API Data" ->
         IF "api_data" \in DOMAIN property
           THEN getApiData(item.name, property.api_data)
           ELSE ErrorLoadingData
    [] item.value_type = "user input" ->
         IF "user_inputs" \in DOMAIN property
           THEN Nullish(Get(property.user_inputs, userInputKey(item.name)), Num(0))
           ELSE ErrorLoadingData
    [] item.value_type = "Calculated" ->
         IF "calculated_data" \in DOMAIN property
              /\ calculatedKey(item.name) \in DOMAIN property.calculated_data
           THEN property.calculated_data[calculatedKey(item.name)]
           ELSE ErrorLoadingData
    [] OTHER -> Num(0)

\* getValue; reading a mapping the snapshot lacks throws, and the catch
\* returns the error token
getValue(item, property) ==
  CASE item.value_type = "API Data" ->
         IF "api_data" \in DOMAIN property
           THEN getApiData(item.name, property.api_data)
           ELSE ErrorLoadingData
    [] item.value_type = "user input" ->
         IF "user_inputs" \in DOMAIN property
           THEN Nullish(Get(property.user_inputs, userInputKey(item.name)), Num(0))
           ELSE ErrorLoadingData
    [] item.value_type = "Calculated" ->
         IF "calculated_data" \in DOMAIN property
           THEN Nullish(Get(property.calculated_data, calculatedKey(item.name)), Num(0))
           ELSE ErrorLoadingData
    [] OTHER -> Num(0)

(***************************************************************************)
(* Pending edits.                                                          *)
(***************************************************************************)
\* the key handleValueChange and renderValue use for modifiedValues
deriveModifiedKey(itemName) == ReplaceSpaces(toLowerCase(itemName))

\* deriveModifiedKey, tabulated over the registry's names
modifiedKeys == [name \in ItemNames |-> deriveModifiedKey(name)]

modifiedKey(itemName) == modifiedKeys[itemName]

\* handleValueChange without the || 0
handleValueChangeNoDefault(prev, itemName, value) ==
  LET k == modifiedKey(itemName)
  IN  [x \in DOMAIN prev \cup {k} |-> IF x = k THEN parseFloat(value) ELSE prev[x]]

\* handleValueChange, storing under the key the resolver and the payload use
handleValueChangeCanonicalKey(prev, itemName, value) ==
  LET k == userInputKey(itemName)
  IN  [x \in DOMAIN prev \cup {k} |->
         IF x = k THEN OrElse(parseFloat(value), Num(0)) ELSE prev[x]]

handleValueChange(prev, itemName, value) ==
  LET k == modifiedKey(itemName)
  IN  [x \in DOMAIN prev \cup {k} |->
         IF x = k THEN OrElse(parseFloat(value), Num(0)) ELSE prev[x]]

\* the string the onChange of item's <input> hands to handleValueChange
onChangeValue(item, text) ==
  IF item.format = "percentage"
    THEN IF item.name \in PercentScaledNames
           THEN toString(DivideBy100(parseFloat(text)))
           ELSE toString(parseFloat(text))
    ELSE text

\* renderValue's inputValue for an editable item
inputValue(item, property, modified) ==
  Nullish(Get(modified, modifiedKey(item.name)),
          Nullish(getValue(item, property), Num(0)))

\* a throw that escapes the function
Thrown == [thrown |-> TRUE]

(***************************************************************************)
(* The format engine.                                                      *)
(***************************************************************************)
\* String.prototype.includes
includes(s, sub) ==
  \E i \in 1..(Len(s) - Len(sub) + 1) : SubSeq(s, i, i + Len(sub) - 1) = sub

\* n / step to the nearest integer, halves away from zero
roundHalfExpand(n, step) ==
  IF n >= 0 THEN (n + step \div 2) \div step ELSE 0 - ((step \div 2 - n) \div step)

\* Intl.NumberFormat with no fraction digits: the number of whole units
wholeUnits(v) == IF IsNum(v) THEN Num(roundHalfExpand(v.num, Unit) * Unit) ELSE NaN

\* formatCurrency: "$" and the amount in whole dollars
formatCurrency(amount) == [kind |-> "currency", amount |-> wholeUnits(amount)]

\* formatPercentage: (value * 100).toFixed(2) and "%"; the rendering holds the
\* number of hundredths of a percent
formatPercentage(value) ==
  [kind |-> "percentage",
   amount |-> IF IsNum(value) THEN [hundredths |-> roundHalfExpand(value.num, Unit \div 10000)]
                              ELSE NaN]

\* formatNumber: the whole number
formatNumber(value) == [kind |-> "number", amount |-> wholeUnits(value)]

NotAvailable == Str("N/A")

\* formatValue's tests on the lowercased name, tabulated over the registry
nameHasRateOrRatio ==
  [name \in ItemNames |->
     \E w \in {"rate", "ratio"} : includes(toLowerCase(name), w)]

nameHasCurrencyWord ==
  [name \in ItemNames |->
     \E w \in {"price", "cost", "value", "fee", "rent", "income", "expense", "tax",
               "insurance", "cashflow", "cash"} : includes(toLowerCase(name), w)]

formatValue(value, item) ==
  LET asPercentage == item.format = "percentage" \/ nameHasRateOrRatio[item.name]
      rounded == IF asPercentage THEN value ELSE MathRound(value)
  IN  IF value \in {Null, Undefined} THEN NotAvailable
      ELSE IF asPercentage THEN formatPercentage(rounded)
      ELSE IF item.format = "currency" \/ nameHasCurrencyWord[item.name]
        THEN formatCurrency(rounded)
      ELSE formatNumber(rounded)

\* x * 100
Times100(v) == IF IsNum(v) THEN Num(v.num * 100) ELSE NaN

\* Number.prototype.toFixed(2)
toFixed2(v) ==
  IF IsNum(v)
    THEN NumStr(roundHalfExpand(v.num, Unit \div 100) * (Unit \div 100))
    ELSE Str("NaN")

\* renderValue's displayValue, the number a percentage <input> shows; toFixed
\* of a value that is no number throws
displayValue(item, shown) ==
  IF item.name \in PercentScaledNames
    THEN parseFloat(toFixed2(Times100(shown)))
    ELSE IF IsNum(shown) \/ shown = NaN THEN parseFloat(toFixed2(shown)) ELSE Thrown

\* renderValue: what the cell of item shows
renderValue(item, property, modified) ==
  LET value == getValue(item, property)
      shown == inputValue(item, property, modified)
  IN  IF item.name = "Address" THEN value
      ELSE IF item.value_type \in {"API Data", "user input"}
        THEN IF item.format = "percentage"
               THEN LET d == displayValue(item, shown)
                    IN  IF d = Thrown THEN Thrown ELSE [input |-> d]
               ELSE [input |-> shown]
      ELSE formatValue(Nullish(value, Num(0)), item)

(***************************************************************************)
(* The payload builder.                                                    *)
(***************************************************************************)
ApiDataKeys ==
  {"fair_market_value", "number_of_units", "offer_price", "transfer_tax",
   "first_mtg_interest_rate", "gross_rents", "property_taxes", "insurance",
   "association_fees"}

\* propertyDetail?.properties[0]
firstProperty(detail) ==
  IF detail = Null \/ Len(detail.properties) = 0 THEN Undefined ELSE detail.properties[1]

\* collectCurrentValues without the final ?? 0
collectCurrentValuesNoDefault(detail, modified) ==
  LET property == firstProperty(detail)
  IN  IF property = Undefined THEN EmptyObject
      ELSE IF ~({"api_data", "user_inputs"} \subseteq DOMAIN property) THEN Thrown
      ELSE [k \in {"address"} \cup ApiDataKeys \cup DOMAIN userInputMappings |->
              IF k = "address" THEN OrElse(Get(property.api_data, "address"), Str(""))
              ELSE IF k \in DOMAIN userInputMappings
                THEN Nullish(Get(modified, k),
                       Get(property.user_inputs, userInputMappings[k]))
              ELSE Get(property.api_data, k)]

\* collectCurrentValues with the pending edits laid over the sourced entries too
collectCurrentValuesOverlayingSourced(detail, modified) ==
  LET property == firstProperty(detail)
      base == collectCurrentValuesNoDefault(detail, modified)
  IN  IF property = Undefined \/ base = Thrown THEN base
      ELSE [k \in DOMAIN base |->
              IF k \in DOMAIN userInputMappings
                THEN Nullish(base[k], Num(0))
                ELSE Nullish(Get(modified, k), base[k])]

collectCurrentValues(detail, modified) ==
  LET property == firstProperty(detail)
  IN  IF property = Undefined THEN EmptyObject
      ELSE IF ~({"api_data", "user_inputs"} \subseteq DOMAIN property) THEN Thrown
      ELSE [k \in {"address"} \cup ApiDataKeys \cup DOMAIN userInputMappings |->
              IF k = "address" THEN OrElse(Get(property.api_data, "address"), Str(""))
              ELSE IF k \in DOMAIN userInputMappings
                THEN Nullish(Get(modified, k),
                       Nullish(Get(property.user_inputs, userInputMappings[k]), Num(0)))
              ELSE Get(property.api_data, k)]

(***************************************************************************)
(* Bounds and inputs of the model.                                         *)
(***************************************************************************)
\* requests that may be in flight together
MaxInflight == 2

\* fields that may hold a pending edit together
MaxPending == 1

\* the complete snapshots the service may return for one property
Versions == {1, 2}

PropertyIds == {Str("P1"), Str("P2")}

\* the fields edited: a regular user input, an irregular one, a sourced fact
EditedNames == {"Vacancy Rate", "2nd Mtg Interest Rate", "Fair Market Value"}

EditedItems == {it \in EditableItems : it.name \in EditedNames}

\* what the user types: nothing valid, or 6
Texts == {Str(""), NumStr(6 * Unit)}

\* HTTP failures of the transport
FailureStatuses == {"401", "500"}

(***************************************************************************)
(* What the remote service answers.                                        *)
(***************************************************************************)
AddressOf(p) == Str("address of " \o p.str)

ApiValue(k, v) ==
  IF k = "first_mtg_interest_rate" THEN Num(v * 5500) ELSE Num(v * 1000 * Unit)

FullProperty(p, v) ==
  [api_data |-> [k \in {"address"} \cup ApiDataKeys |->
                   IF k = "address" THEN AddressOf(p) ELSE ApiValue(k, v)],
   user_inputs |-> [k \in {userInputMappings[x] : x \in DOMAIN userInputMappings} |->
                      Num(v * 5500)],
   calculated_data |-> [k \in {calculatedKey(it.name) : it \in CalculatedItems} |->
                          Num(v * 700 * Unit)],
   cashflow_per_unit |-> Num(v * 100 * Unit)]

\* a snapshot whose mappings are all but empty
SparseProperty(p) ==
  [api_data |-> [address |-> AddressOf(p)],
   user_inputs |-> EmptyObject,
   calculated_data |-> EmptyObject,
   cashflow_per_unit |-> Num(0)]

\* a snapshot that lacks the user_inputs mapping
NoInputsProperty(p) ==
  [k \in {"api_data", "calculated_data", "cashflow_per_unit"} |-> FullProperty(p, 1)[k]]

\* a snapshot that lacks the api_data mapping
NoApiDataProperty(p) ==
  [k \in {"user_inputs", "calculated_data", "cashflow_per_unit"} |-> FullProperty(p, 1)[k]]

\* a snapshot whose calculated_data holds a zero, a non-zero number and a
\* null, and lacks every other key
FewMetricsProperty(p) ==
  [k \in {"api_data", "user_inputs", "calculated_data", "cashflow_per_unit"} |->
     IF k = "calculated_data"
       THEN ("Total Income" :> Num(0)) @@ ("GRM" :> Num(3 * Unit)) @@ ("DCR" :> Null)
       ELSE FullProperty(p, 1)[k]]

ResponsesOf ==
  [p \in PropertyIds |->
     {[properties |-> <<FullProperty(p, v)>>] : v \in Versions}
       \cup {[properties |-> <<SparseProperty(p)>>],
             [properties |-> <<NoInputsProperty(p)>>],
             [properties |-> <<>>]}]

Responses(p) == ResponsesOf[p]

(***************************************************************************)
(* The state of the page component.                                        *)
(***************************************************************************)
VARIABLES
  id,               \* router.query.id
  propertyDetail,   \* the current snapshot (the last response), or null
  isLoading,
  isRecalculating,
  error,
  modifiedValues,   \* the pending edits
  token,            \* localStorage 'token'
  route,            \* the page the router shows
  inflight          \* the requests awaiting their response, a bag

\* The state of the account page (pages/mypage.tsx): the investment parameters.
VARIABLES
  userInputs,       \* the parameters shown, with camelCase keys, or null
  paramsForm,       \* the parameters being edited, or null
  isEditingParams,  \* the form is shown
  submitted         \* the bodies of the parameter updates awaiting their response

mypageVars == <<userInputs, paramsForm, isEditingParams, submitted>>

\* The state of the address box of the home page (pages/index.tsx); the search
\* page (pages/search/index.tsx) declares the same state and the same handlers.
VARIABLES
  address,          \* the text of the address box
  suggestions,      \* the autocomplete list
  showSuggestions,
  selectedIndex,    \* the highlighted suggestion, from 0; -1 for none
  debounced,        \* the input the pending debounced call will run with, or null
  autocompletes,    \* the inputs of the autocomplete requests awaiting their response
  blurTimeout,      \* the timer handleBlur started is pending
  selected,         \* the argument of the last handleSelectSuggestion, or null
  focused           \* the address box has the keyboard focus

homeVars ==
  <<address, suggestions, showSuggestions, selectedIndex, debounced, autocompletes,
    blurTimeout, selected, focused>>

\* the state of the pages that are not mounted while the property page is
otherPages == <<mypageVars, homeVars>>

vars ==
  <<id, propertyDetail, isLoading, isRecalculating, error, modifiedValues,
    token, route, inflight, mypageVars, homeVars>>

\* useState(null) for both mappings (mypage.tsx lines 83 and 99)
MypageInit ==
  /\ userInputs = Null
  /\ paramsForm = Null
  /\ isEditingParams = FALSE
  /\ submitted = {}

\* the initial state of the address box (index.tsx lines 36-40)
HomeInit ==
  /\ address = ""
  /\ suggestions = <<>>
  /\ showSuggestions = FALSE
  /\ selectedIndex = -1
  /\ debounced = Null
  /\ autocompletes = {}
  /\ blurTimeout = FALSE
  /\ selected = Null
  /\ focused = FALSE

PropertyRoute == "/property/[id]"

Init ==
  /\ id = Undefined
  /\ propertyDetail = Null
  /\ isLoading = TRUE
  /\ isRecalculating = FALSE
  /\ error = Null
  /\ modifiedValues = EmptyObject
  /\ token \in {Null, Str("token")}
  /\ route = PropertyRoute
  /\ inflight = EmptyBag
  /\ MypageInit
  /\ HomeInit

property == firstProperty(propertyDetail)

\* the report's header: the address and the cashflow per unit; reading the
\* address of a snapshot without api_data throws
header(snapshot) ==
  IF "api_data" \notin DOMAIN snapshot THEN Thrown
  ELSE [address |-> OrElse(Get(snapshot.api_data, "address"), Str("Property Address")),
        cashflow |-> formatCurrency(Get(snapshot, "cashflow_per_unit"))]

\* the report as rendered: the header and a cell for every item of the
\* sections; a throw while rendering leaves no part of it
report(snapshot, modified) ==
  LET cells == [name \in {it.name : it \in AllItems} |->
                  renderValue(CHOOSE it \in AllItems : it.name = name, snapshot, modified)]
  IN  IF header(snapshot) = Thrown \/ \E name \in DOMAIN cells : cells[name] = Thrown
        THEN Thrown
        ELSE [header |-> header(snapshot), cells |-> cells]

\* none of the render guards returns: the component renders the report
PastRenderGuards == ~isLoading /\ error = Null /\ property # Undefined

\* the report (header, buttons, sections) is what the component renders
ReportRendered == PastRenderGuards /\ header(property) # Thrown

Send(req) == inflight' = inflight (+) SetToBag({req})

Receive(req) == inflight' = inflight (-) SetToBag({req})

CanSend == BagCardinality(inflight) < MaxInflight

FetchRequest(p) == [kind |-> "fetch", property_id |-> p]

\* A request in flight is known by its kind and the id it was issued for.  Its
\* body is fixed at the click (recalculatePayload, savePropertyBody,
\* saveInputsBody below) and no response handler reads it.
RecalculateRequest(p) == [kind |-> "recalculate", property_id |-> p]

SavePropertyRequest(p) == [kind |-> "saveProperty", property_id |-> p]

SaveInputsRequest == [kind |-> "saveInputs"]

\* values: updatedValues of the recalculate request
recalculatePayload == collectCurrentValues(propertyDetail, modifiedValues)

\* property_data of the save-property request
savePropertyBody == property

\* a body that overlays the pending edits on the snapshot's user inputs
saveInputsBodyWithEdits ==
  IF property = Undefined THEN Undefined
  ELSE LET inputs == Get(property, "user_inputs")
       IN  [k \in DOMAIN inputs |->
              IF \E item \in UserInputItems :
                   userInputKey(item.name) = k /\ modifiedKey(item.name) \in DOMAIN modifiedValues
                THEN LET item == CHOOSE it \in UserInputItems :
                                   /\ userInputKey(it.name) = k
                                   /\ modifiedKey(it.name) \in DOMAIN modifiedValues
                     IN  modifiedValues[modifiedKey(item.name)]
                ELSE inputs[k]]

\* inputs of the save-inputs request
saveInputsBody == IF property = Undefined THEN Undefined ELSE Get(property, "user_inputs")

InFlight(kind) == {r \in BagToSet(inflight) : r.kind = kind}

\* fetchPropertyDetail up to its await
fetchPropertyDetail ==
  IF id' = Undefined
    THEN UNCHANGED <<isLoading, inflight>>
    ELSE /\ isLoading' = TRUE
         /\ error' = Null
         /\ Send(FetchRequest(id'))

\* the route's id changes (the component stays mounted) and useEffect([id]) runs
RouteChange(p) ==
  /\ p # id
  /\ CanSend
  /\ id' = p
  /\ fetchPropertyDetail
  /\ UNCHANGED <<propertyDetail, isRecalculating, modifiedValues, token, route>>
  /\ UNCHANGED otherPages

\* the error screen's Try Again button
TryAgain ==
  /\ ~isLoading
  /\ error # Null
  /\ CanSend
  /\ UNCHANGED <<id, propertyDetail, isRecalculating, modifiedValues, token, route>>
  /\ error' = Null
  /\ fetchPropertyDetail
  /\ UNCHANGED otherPages

\* the fetch resolves: fetchPropertyDetail after its await
FetchSuccess(req, resp) ==
  /\ propertyDetail' = resp
  /\ isLoading' = FALSE
  /\ Receive(req)
  /\ UNCHANGED <<id, isRecalculating, error, modifiedValues, token, route>>
  /\ UNCHANGED otherPages

\* the fetch rejects: setError(err.message)
FetchFailure(req, status) ==
  /\ error' = Str("Request failed with status code " \o status)
  /\ isLoading' = FALSE
  /\ Receive(req)
  /\ UNCHANGED <<id, propertyDetail, isRecalculating, modifiedValues, token, route>>
  /\ UNCHANGED otherPages

FailedToRecalculate == Str("Failed to recalculate values")

\* a Recalculate button that is never disabled
RecalculateNeverDisabled == FALSE

\* the Recalculate button's disabled attribute
RecalculateDisabled == isRecalculating

\* a click on Recalculate: handleRecalculate up to its await, or through its
\* catch when collectCurrentValues throws
Recalculate ==
  /\ ReportRendered
  /\ ~RecalculateDisabled
  /\ LET updatedValues == recalculatePayload
     IN  IF updatedValues = Thrown
           THEN /\ error' = FailedToRecalculate
                /\ isRecalculating' = FALSE
                /\ UNCHANGED inflight
           ELSE /\ CanSend
                /\ isRecalculating' = TRUE
                /\ Send(RecalculateRequest(id))
                /\ UNCHANGED error
  /\ UNCHANGED <<id, propertyDetail, isLoading, modifiedValues, token, route>>
  /\ UNCHANGED otherPages

\* the recalculation resolves: handleRecalculate after its await
RecalculateSuccess(req, resp) ==
  /\ propertyDetail' = resp
  /\ isRecalculating' = FALSE
  /\ Receive(req)
  /\ UNCHANGED <<id, isLoading, error, modifiedValues, token, route>>
  /\ UNCHANGED otherPages

\* a rejection handled without the finally block
RecalculateFailureNoFinally(req, status) ==
  /\ error' = FailedToRecalculate
  /\ Receive(req)
  /\ UNCHANGED <<id, propertyDetail, isLoading, isRecalculating, modifiedValues, token,
                 route>>
  /\ UNCHANGED otherPages

\* a catch block that also drops the pending edits
RecalculateFailureClearingEdits(req, status) ==
  /\ error' = FailedToRecalculate
  /\ isRecalculating' = FALSE
  /\ modifiedValues' = EmptyObject
  /\ Receive(req)
  /\ UNCHANGED <<id, propertyDetail, isLoading, token, route>>
  /\ UNCHANGED otherPages

\* the recalculation rejects
RecalculateFailure(req, status) ==
  /\ error' = FailedToRecalculate
  /\ isRecalculating' = FALSE
  /\ Receive(req)
  /\ UNCHANGED <<id, propertyDetail, isLoading, modifiedValues, token, route>>
  /\ UNCHANGED otherPages

\* a click on Save Property
SaveProperty ==
  /\ ReportRendered
  /\ IF token = Null
       THEN /\ error' = Str("Please login to save properties")
            /\ UNCHANGED inflight
       ELSE /\ CanSend
            /\ Send(SavePropertyRequest(id))
            /\ UNCHANGED error
  /\ UNCHANGED <<id, propertyDetail, isLoading, isRecalculating, modifiedValues, token, route>>
  /\ UNCHANGED otherPages

SavePropertySuccess(req) ==
  /\ Receive(req)
  /\ UNCHANGED <<id, propertyDetail, isLoading, isRecalculating, error, modifiedValues,
                 token, route>>
  /\ UNCHANGED otherPages

SavePropertyFailure(req, status) ==
  /\ error' = Str("Failed to save property")
  /\ Receive(req)
  /\ UNCHANGED <<id, propertyDetail, isLoading, isRecalculating, modifiedValues, token, route>>
  /\ UNCHANGED otherPages

\* a click on Save User Inputs
SaveDefaultInputs ==
  /\ ReportRendered
  /\ IF token = Null
       THEN /\ error' = Str("Please login to save default inputs")
            /\ UNCHANGED inflight
       ELSE /\ CanSend
            /\ Send(SaveInputsRequest)
            /\ UNCHANGED error
  /\ UNCHANGED <<id, propertyDetail, isLoading, isRecalculating, modifiedValues, token, route>>
  /\ UNCHANGED otherPages

\* a success of the save that also drops the pending edits
SaveDefaultInputsSuccessClearingEdits(req) ==
  /\ Receive(req)
  /\ modifiedValues' = EmptyObject
  /\ UNCHANGED <<id, propertyDetail, isLoading, isRecalculating, error, token, route>>
  /\ UNCHANGED otherPages

SaveDefaultInputsSuccess(req) ==
  /\ Receive(req)
  /\ UNCHANGED <<id, propertyDetail, isLoading, isRecalculating, error, modifiedValues,
                 token, route>>
  /\ UNCHANGED otherPages

SaveDefaultInputsFailure(req, status) ==
  /\ error' = Str("Failed to save default inputs")
  /\ Receive(req)
  /\ UNCHANGED <<id, propertyDetail, isLoading, isRecalculating, modifiedValues, token, route>>
  /\ UNCHANGED otherPages

\* an onChange of inputs that are disabled while a recalculation is in flight
OnChangeUnlessRecalculating(item, text) ==
  /\ ReportRendered
  /\ ~isRecalculating
  /\ \/ modifiedKey(item.name) \in DOMAIN modifiedValues
     \/ Cardinality(DOMAIN modifiedValues) < MaxPending
  /\ modifiedValues' = handleValueChange(modifiedValues, item.name, onChangeValue(item, text))
  /\ UNCHANGED <<id, propertyDetail, isLoading, isRecalculating, error, token, route, inflight>>
  /\ UNCHANGED otherPages

\* an onChange that also writes the edit into the snapshot's user_inputs
OnChangeWritingSnapshot(item, text) ==
  LET k == modifiedKey(item.name)
      edits == handleValueChange(modifiedValues, item.name, onChangeValue(item, text))
      inputs == IF "user_inputs" \in DOMAIN property THEN property.user_inputs ELSE EmptyObject
      patched == [x \in DOMAIN inputs \cup {k} |-> IF x = k THEN edits[k] ELSE inputs[x]]
  IN  /\ ReportRendered
      /\ \/ k \in DOMAIN modifiedValues
         \/ Cardinality(DOMAIN modifiedValues) < MaxPending
      /\ modifiedValues' = edits
      /\ propertyDetail' =
           [properties |->
              <<[f \in DOMAIN property \cup {"user_inputs"} |->
                   IF f = "user_inputs" THEN patched ELSE property[f]]>>]
      /\ UNCHANGED <<id, isLoading, isRecalculating, error, token, route, inflight>>
      /\ UNCHANGED otherPages

\* the user changes the <input> of an editable item
OnChange(item, text) ==
  /\ ReportRendered
  /\ \/ modifiedKey(item.name) \in DOMAIN modifiedValues
     \/ Cardinality(DOMAIN modifiedValues) < MaxPending
  /\ modifiedValues' = handleValueChange(modifiedValues, item.name, onChangeValue(item, text))
  /\ UNCHANGED <<id, propertyDetail, isLoading, isRecalculating, error, token, route, inflight>>
  /\ UNCHANGED otherPages

\* the navigation bar's Logout button (AuthContext.logout)
Logout ==
  /\ ReportRendered
  /\ token # Null
  /\ token' = Null
  /\ UNCHANGED <<id, propertyDetail, isLoading, isRecalculating, error, modifiedValues,
                 route, inflight>>
  /\ UNCHANGED otherPages

\* handleError: defined by the page, called by none of its handlers
handleError(status) ==
  /\ IF status = "401"
       THEN /\ error' = Str("Please login to continue")
            /\ route' = "/login"
       ELSE /\ error' = Str("Request failed with status code " \o status)
            /\ UNCHANGED route
  /\ UNCHANGED token

Next ==
  \/ \E p \in PropertyIds : RouteChange(p)
  \/ TryAgain
  \/ \E req \in InFlight("fetch") : \E resp \in Responses(req.property_id) :
       FetchSuccess(req, resp)
  \/ \E req \in InFlight("fetch") : \E status \in FailureStatuses :
       FetchFailure(req, status)
  \/ Recalculate
  \/ \E req \in InFlight("recalculate") : \E resp \in Responses(req.property_id) :
       RecalculateSuccess(req, resp)
  \/ \E req \in InFlight("recalculate") : \E status \in FailureStatuses :
       RecalculateFailure(req, status)
  \/ SaveProperty
  \/ \E req \in InFlight("saveProperty") : SavePropertySuccess(req)
  \/ \E req \in InFlight("saveProperty") : \E status \in FailureStatuses :
       SavePropertyFailure(req, status)
  \/ SaveDefaultInputs
  \/ \E req \in InFlight("saveInputs") : SaveDefaultInputsSuccess(req)
  \/ \E req \in InFlight("saveInputs") : \E status \in FailureStatuses :
       SaveDefaultInputsFailure(req, status)
  \/ \E item \in EditedItems : \E text \in Texts : OnChange(item, text)
  \/ Logout

Spec == Init /\ [][Next]_vars

\* the transport answers a recalculation, with a response or a rejection
RecalculateAnswered ==
  \E req \in InFlight("recalculate") :
    \/ \E resp \in Responses(req.property_id) : RecalculateSuccess(req, resp)
    \/ \E status \in FailureStatuses : RecalculateFailure(req, status)

\* the page with a transport that answers every recalculation
LiveSpec == Init /\ [][Next]_vars /\ WF_vars(RecalculateAnswered)

(***************************************************************************)
(* The report's fields on their own: a snapshot has been fetched, and the   *)
(* user edits any editable field of the registry.                           *)
(***************************************************************************)
\* what the user types into a field: nothing valid, 6 or 5.557
FieldTexts == {Str(""), NumStr(6 * Unit), NumStr(5557 * (Unit \div 1000))}

\* the snapshots a fetch has installed
FieldSnapshots(p) ==
  {resp \in Responses(p) : Len(resp.properties) > 0}
    \cup {[properties |-> <<NoApiDataProperty(p)>>],
          [properties |-> <<FewMetricsProperty(p)>>]}

\* the page after fetchPropertyDetail's success
FieldInit ==
  /\ id = Str("P1")
  /\ propertyDetail \in FieldSnapshots(id)
  /\ isLoading = FALSE
  /\ isRecalculating = FALSE
  /\ error = Null
  /\ modifiedValues = EmptyObject
  /\ token = Str("token")
  /\ route = PropertyRoute
  /\ inflight = EmptyBag
  /\ MypageInit
  /\ HomeInit

FieldNext == \E item \in EditableItems : \E text \in FieldTexts : OnChange(item, text)

FieldSpec == FieldInit /\ [][FieldNext]_vars

(***************************************************************************)
(* Properties.                                                             *)
(***************************************************************************)
\* the recalculate requests in flight, counted with multiplicity
RecalculationsInFlight ==
  BagCardinality([r \in InFlight("recalculate") |-> inflight[r]])

\* display name of an item that holds a pending edit
HasPendingEdit(name) == modifiedKey(name) \in DOMAIN modifiedValues

\* C1: a recalculation response that arrives after the active identifier has
\* changed is discarded: with the report of the now active property on
\* display, the response of a request issued for another identifier does not
\* replace the current snapshot.
C1_StaleRecalculationDiscarded ==
  [][\A req \in InFlight("recalculate") : \A resp \in Responses(req.property_id) :
       (req.property_id # id /\ ReportRendered /\ RecalculateSuccess(req, resp))
         => propertyDetail' = propertyDetail]_vars

\* C2: every UserInput field that holds a pending edit is sent, in the payload
\* built next, with the edited raw value under the field's canonical key.
C2_PendingEditInPayload ==
  LET payload == recalculatePayload
  IN  (ReportRendered /\ payload # Thrown) =>
        \A it \in UserInputItems :
          HasPendingEdit(it.name) =>
            payload[userInputKey(it.name)] = modifiedValues[modifiedKey(it.name)]

\* C3: a successful recalculation installs the response as the snapshot and
\* empties the pending edits.
C3_SuccessClearsPendingEdits ==
  [][\A req \in InFlight("recalculate") : \A resp \in Responses(req.property_id) :
       RecalculateSuccess(req, resp)
         => (propertyDetail' = resp /\ modifiedValues' = EmptyObject)]_vars

\* C4: right after the active identifier changes, no pending edit is left.
C4_IdChangeResetsPendingEdits ==
  [][id' # id => modifiedValues' = EmptyObject]_vars

\* C5: when a recalculate request ends, either its response became the
\* snapshot and no message was set, or the failure message is set and the
\* snapshot and the pending edits are what they were.
C5_FailureLeavesSnapshotAndEdits ==
  [][\A req \in InFlight("recalculate") :
       inflight' = inflight (-) SetToBag({req}) =>
         \/ /\ propertyDetail' \in Responses(req.property_id)
            /\ error' = error
         \/ /\ error' = FailedToRecalculate
            /\ error # FailedToRecalculate
            /\ propertyDetail' = propertyDetail
            /\ modifiedValues' = modifiedValues]_vars

\* a recalculation has failed with pending edits and a snapshot in place
C5_Witness ==
  /\ error = FailedToRecalculate
  /\ ~isRecalculating
  /\ property # Undefined
  /\ "user_inputs" \in DOMAIN property
  /\ modifiedValues # EmptyObject

\* C6: at most one recalculate request is in flight; one is in flight exactly
\* while isRecalculating is set.
C6_OneRecalculationInFlight ==
  RecalculationsInFlight = IF isRecalculating THEN 1 ELSE 0

\* the report is shown, with its Recalculate button, while a request is in flight
C6_Witness == ReportRendered /\ isRecalculating /\ RecalculationsInFlight = 1

\* C7: the payload holds, for every UserInput item of the registry, an entry
\* with a value under the item's canonical key.
C7_PayloadTotal ==
  LET payload == recalculatePayload
      keys == DOMAIN payload
  IN  (ReportRendered /\ payload # Thrown) =>
        \A it \in UserInputItems :
          /\ userInputKey(it.name) \in keys
          /\ payload[userInputKey(it.name)] \notin {Undefined, Null}

\* a payload built from a snapshot without stored inputs, with an edit pending
C7_Witness ==
  /\ ReportRendered
  /\ recalculatePayload # Thrown
  /\ property.user_inputs = EmptyObject
  /\ modifiedValues # EmptyObject

\* the raw number an edit of item to text stands for
EditedRawValue(item, text) ==
  LET n == parseFloat(text)
  IN  IF n \in {NaN, Num(0)} THEN Num(0)
      ELSE IF item.format = "percentage" THEN Num(n.num \div 100) ELSE n

\* C8: wherever the report is shown, the value shown for a UserInput item of
\* the registry is its pending edit from the step that records it on (no
\* request has to complete); with no pending edit it is the snapshot's stored
\* input, or zero when that is absent.
C8_DisplayedValue ==
  /\ [](ReportRendered /\ "user_inputs" \in DOMAIN property =>
          LET shown == property
              stored == property.user_inputs
          IN  \A it \in UserInputItems :
                /\ ~HasPendingEdit(it.name) =>
                     inputValue(it, shown, modifiedValues) =
                       IF userInputKey(it.name) \in DOMAIN stored
                         THEN stored[userInputKey(it.name)]
                         ELSE Num(0)
                /\ \A text \in Texts :
                     inputValue(it, shown,
                                handleValueChange(modifiedValues, it.name,
                                                  onChangeValue(it, text)))
                       = EditedRawValue(it, text))
  /\ [][\A item \in EditedItems \cap UserInputItems : \A text \in Texts :
          OnChange(item, text) =>
            /\ inputValue(item, property, modifiedValues)' = EditedRawValue(item, text)
            /\ UNCHANGED <<propertyDetail, inflight, isRecalculating>>]_vars

\* an irregular percentage field shows its edit while a recalculation is in flight
C8_Witness ==
  /\ ReportRendered
  /\ isRecalculating
  /\ HasPendingEdit("2nd Mtg Interest Rate")
  /\ inputValue(Item("2nd Mtg Interest Rate", "user input", "Financing (Monthly)",
                     "percentage"), property, modifiedValues) = Num((6 * Unit) \div 100)

\* display names of sourced items that getValue has no case for
UnrecognizedSourcedNames == {"Lot Size", "Year Built"}

\* C9: resolving a Sourced item with an unrecognized display name yields an
\* error, never zero.
C9_UnmappedSourcedIsError ==
  ReportRendered =>
    \A name \in UnrecognizedSourcedNames :
      getValue(Item(name, "API Data", "Property Info", "number"), property) # Num(0)

\* a fetch, recalculate or save request is rejected with HTTP 401
Rejected401 ==
  \E req \in BagToSet(inflight) :
    \/ req.kind = "fetch" /\ FetchFailure(req, "401")
    \/ req.kind = "recalculate" /\ RecalculateFailure(req, "401")
    \/ req.kind = "saveProperty" /\ SavePropertyFailure(req, "401")
    \/ req.kind = "saveInputs" /\ SaveDefaultInputsFailure(req, "401")

\* C10: on an HTTP 401 the stored session is invalidated and the user is sent
\* to the login page.
C10_UnauthorizedInvalidatesSession ==
  [][Rejected401 => (token' = Null /\ route' = "/login")]_vars


\* the editable percentage fields of the registry
EditablePercentageItems == {it \in EditableItems : it.format = "percentage"}

\* the number the <input> of an editable percentage field shows
editModeNumber(item) == displayValue(item, inputValue(item, property, modifiedValues))

\* C11: for every editable percentage field and every number x typed into it,
\* the number the field shows once x has been stored is x again, whatever the
\* number of fractional digits of x.
C11_RoundTrip ==
  [][\A item \in EditablePercentageItems : \A text \in FieldTexts :
       (IsNum(parseFloat(text)) /\ OnChange(item, text)) =>
         displayValue(item, inputValue(item, property', modifiedValues')) = parseFloat(text)]_vars


\* r * 100 to two fractional digits, for a raw fraction r
WholePercentOf(r) == Num(roundHalfExpand(r.num * 100, Unit \div 100) * (Unit \div 100))

\* C12: every editable percentage field shows the raw fraction r it holds, from
\* the snapshot or from a pending edit, as the whole-number percent r * 100
\* (to two fractional digits), and stores a typed number e as the fraction
\* e / 100.
C12_FractionStoredPercentShown ==
  /\ [](ReportRendered =>
          \A item \in EditablePercentageItems :
            LET r == inputValue(item, property, modifiedValues)
            IN  IsNum(r) => editModeNumber(item) = WholePercentOf(r))
  /\ [][\A item \in EditablePercentageItems : \A text \in FieldTexts :
          (IsNum(parseFloat(text)) /\ OnChange(item, text)) =>
            modifiedValues'[modifiedKey(item.name)] = Num(parseFloat(text).num \div 100)]_vars

\* 6 was typed into one percentage field and is stored as 0.06 and shown as 6,
\* while another shows the snapshot's 0.055 as 5.5
C12_Witness ==
  /\ ReportRendered
  /\ \E item \in EditablePercentageItems :
       /\ Get(modifiedValues, modifiedKey(item.name)) = Num((6 * Unit) \div 100)
       /\ editModeNumber(item) = Num(6 * Unit)
  /\ \E item \in EditablePercentageItems :
       /\ modifiedKey(item.name) \notin DOMAIN modifiedValues
       /\ getValue(item, property) = Num(5500)
       /\ editModeNumber(item) = Num(55 * (Unit \div 10))


\* C13: a line item that declares a format is rendered by formatValue with the
\* declared kind, whatever its display name is.
C13_ExplicitFormatWins ==
  ReportRendered =>
    \A item \in AllItems :
      LET value == getValue(item, property)
      IN  IsNum(value) => formatValue(value, item).kind = item.format


\* the snapshot has the mapping that item reads, and no value for item in it
MissingInSnapshot(item) ==
  LET lacks(mapping, key) ==
        mapping \in DOMAIN property /\ Get(property[mapping], key) \in {Undefined, Null}
  IN  CASE item.value_type = "Calculated" -> lacks("calculated_data", calculatedKey(item.name))
        [] item.value_type = "user input" -> lacks("user_inputs", userInputKey(item.name))
        [] OTHER -> item.name \in DOMAIN apiDataKey /\ lacks("api_data", apiDataKey[item.name])

\* C14: a line item whose value is null or missing in the snapshot is shown as
\* the not-available marker, never as a formatted zero.
C14_MissingShowsNotAvailable ==
  ReportRendered =>
    \A item \in AllItems :
      (MissingInSnapshot(item) /\ modifiedKey(item.name) \notin DOMAIN modifiedValues) =>
        renderValue(item, property, modifiedValues) = NotAvailable


\* C15: the snapshot changes only in the step in which a fetch or a
\* recalculation is answered successfully, and then it becomes the whole
\* response; recording an edit and submitting a recalculation or a save leave
\* it as it is.
C15_SnapshotReplacedWholesale ==
  [][/\ propertyDetail' # propertyDetail =>
          \E req \in InFlight("fetch") \cup InFlight("recalculate") :
            /\ inflight' = inflight (-) SetToBag({req})
            /\ propertyDetail' \in Responses(req.property_id)
     /\ modifiedValues' # modifiedValues => propertyDetail' = propertyDetail
     /\ BagCardinality(inflight') > BagCardinality(inflight) =>
          propertyDetail' = propertyDetail]_vars

\* an edit has been recorded and a recalculation and a save submitted over a
\* snapshot that is still the response that installed it
C15_Witness ==
  /\ id \in PropertyIds
  /\ propertyDetail \in Responses(id)
  /\ property # Undefined
  /\ modifiedValues # EmptyObject
  /\ InFlight("recalculate") # {}
  /\ InFlight("saveProperty") \cup InFlight("saveInputs") # {}


\* a save is refused for want of a token, submitted, or answered
SaveStep ==
  \/ error' # error /\ error' \in {Str("Please login to save properties"),
                                   Str("Please login to save default inputs")}
  \/ \E req \in {SavePropertyRequest(p) : p \in PropertyIds} \cup {SaveInputsRequest} :
       inflight' = inflight (+) SetToBag({req})
  \/ \E req \in InFlight("saveProperty") \cup InFlight("saveInputs") :
       inflight' = inflight (-) SetToBag({req})

\* C16: saving the property or the default inputs, with success or failure,
\* leaves the snapshot, the pending edits and the recalculating flag (and the
\* rest of the page's state but the reported error) unchanged.
C16_SavesLeaveLocalState ==
  [][SaveStep =>
       UNCHANGED <<id, propertyDetail, isLoading, isRecalculating, modifiedValues,
                   token, route>>]_vars

\* a save has failed while an edit was pending and a recalculation in flight
C16_Witness ==
  /\ error \in {Str("Failed to save property"), Str("Failed to save default inputs")}
  /\ property # Undefined
  /\ modifiedValues # EmptyObject
  /\ isRecalculating


\* C17: the payload's entry for every sourced fact is the snapshot's value of
\* it, whatever pending edit has been recorded for a sourced field.
C17_SourcedEntriesFromSnapshot ==
  LET payload == recalculatePayload
  IN  (ReportRendered /\ payload # Thrown) =>
        \A k \in ApiDataKeys : payload[k] = Get(property.api_data, k)

\* an edit of Fair Market Value that differs from the snapshot's value is
\* pending, and the payload holds the snapshot's value
C17_Witness ==
  LET payload == recalculatePayload
  IN  /\ ReportRendered
      /\ payload # Thrown
      /\ "fair_market_value" \in DOMAIN modifiedValues
      /\ modifiedValues["fair_market_value"] = Num(6 * Unit)
      /\ payload["fair_market_value"] = Num(1000 * Unit)


\* the keys under which the registry's items are read from the snapshot's
\* sourced facts and user inputs
RegistryKeys ==
  {apiDataKey[it.name] : it \in {x \in ApiDataItems : x.name \in DOMAIN apiDataKey}}
    \cup {userInputKey(it.name) : it \in UserInputItems}

\* C18: every key of the recalculation payload is the key of a line item that
\* the registry declares.
C18_PayloadKeysDeclared ==
  LET payload == recalculatePayload
  IN  (ReportRendered /\ payload # Thrown) => DOMAIN payload \subseteq RegistryKeys


\* the page holds no snapshot of the property that id names
NoSnapshotOfActiveProperty == property = Undefined \/ propertyDetail \notin Responses(id)

\* a recalculation or a save is submitted
Submission ==
  \E req \in {RecalculateRequest(p) : p \in PropertyIds}
               \cup {SavePropertyRequest(p) : p \in PropertyIds} \cup {SaveInputsRequest} :
    inflight' = inflight (+) SetToBag({req})

\* C19: while no snapshot of the active property is loaded the report is not
\* rendered, so no line item is displayed, and no recalculation or save is
\* submitted.
C19_NoSnapshotNoReport ==
  [][NoSnapshotOfActiveProperty => (~ReportRendered /\ ~Submission)]_vars


\* resolving item fails: no pending edit stands in for it, and getValue throws
ResolutionFails(item) ==
  /\ item \in EditableItems => modifiedKey(item.name) \notin DOMAIN modifiedValues
  /\ getValue(item, property) = ErrorLoadingData

\* C20: when resolving a line item fails, the report is still rendered, the
\* item's cell holds the error token and every other item's cell holds that
\* item's resolved value.
C20_ErrorConfinedToField ==
  LET view == report(property, modifiedValues)
  IN  (PastRenderGuards /\ \E item \in AllItems : ResolutionFails(item)) =>
        /\ view # Thrown
        /\ \A item \in AllItems :
             IF ResolutionFails(item)
               THEN view.cells[item.name] \in {ErrorLoadingData, [input |-> ErrorLoadingData],
                                               [input |-> NaN]}
               ELSE view.cells[item.name] = renderValue(item, property, modifiedValues)


\* the field of item can take one more edit within the bound on pending edits
WithinPendingBound(item) ==
  \/ modifiedKey(item.name) \in DOMAIN modifiedValues
  \/ Cardinality(DOMAIN modifiedValues) < MaxPending

\* C21: while a recalculation is in flight and the report is shown, the
\* Recalculate button is disabled and every editable field still accepts an
\* edit; an edit made then is recorded and shown at once, with the
\* recalculation still in flight.
C21_EditsAcceptedWhileRecalculating ==
  /\ []((ReportRendered /\ isRecalculating) =>
          /\ RecalculateDisabled
          /\ \A item \in EditedItems : \A text \in Texts :
               WithinPendingBound(item) => ENABLED OnChange(item, text))
  /\ [][\A item \in EditedItems : \A text \in Texts :
          (isRecalculating /\ OnChange(item, text)) =>
            /\ modifiedValues'[modifiedKey(item.name)] = EditedRawValue(item, text)
            /\ inputValue(item, property', modifiedValues') = EditedRawValue(item, text)
            /\ isRecalculating' /\ InFlight("recalculate")' # {}]_vars

\* a recalculation is in flight, the report is shown, and a field shows a
\* pending edit
C21_Witness ==
  /\ ReportRendered
  /\ isRecalculating
  /\ InFlight("recalculate") # {}
  /\ \E item \in EditedItems :
       /\ modifiedKey(item.name) \in DOMAIN modifiedValues
       /\ inputValue(item, property, modifiedValues) = modifiedValues[modifiedKey(item.name)]


\* C23: a calculated item whose key the snapshot's calculated_data lacks
\* resolves to zero, not to an error; a value that is there, zero included, is
\* returned as it is.
C23_AbsentMetricIsZero ==
  (PastRenderGuards /\ "calculated_data" \in DOMAIN property) =>
    \A item \in CalculatedItems :
      LET metrics == property.calculated_data
          key == IF item.name \in DOMAIN calculatedKeyMappings
                   THEN calculatedKeyMappings[item.name] ELSE item.name
      IN  getValue(item, property) =
            IF key \in DOMAIN metrics /\ metrics[key] # Null THEN metrics[key] ELSE Num(0)

\* the snapshot shown holds a zero for one calculated item, a non-zero number
\* for another and nothing for a third, and they resolve to 0, the number and 0
C23_Witness ==
  /\ ReportRendered
  /\ "calculated_data" \in DOMAIN property
  /\ \E zero, some, none \in CalculatedItems :
       /\ Get(property.calculated_data, zero.name) = Num(0)
       /\ getValue(zero, property) = Num(0)
       /\ Get(property.calculated_data, some.name) = Num(3 * Unit)
       /\ getValue(some, property) = Num(3 * Unit)
       /\ calculatedKey(none.name) \notin DOMAIN property.calculated_data
       /\ getValue(none, property) = Num(0)


\* C24: an edit whose text is empty or no number stores zero under the
\* field's key, for every editable field of the registry, the percentage
\* fields whose number is divided by 100 included.
C24_InvalidTextStoresZero ==
  [][\A item \in EditableItems : \A text \in FieldTexts :
       (~IsNum(parseFloat(text)) /\ OnChange(item, text)) =>
         /\ modifiedKey(item.name) \in DOMAIN modifiedValues'
         /\ modifiedValues'[modifiedKey(item.name)] = Num(0)]_vars

\* zero is stored for a percentage field whose text was emptied
C24_Witness ==
  /\ ReportRendered
  /\ \E item \in EditablePercentageItems :
       /\ item.name \in PercentScaledNames
       /\ Get(modifiedValues, modifiedKey(item.name)) = Num(0)


\* C25: the step in which the transport answers a recalculation, with success
\* or failure, ends the recalculating state and enables Recalculate again; with
\* a transport that answers, every recalculating state is left.
C25_RecalculatingIsLeft ==
  /\ [][(\E req \in InFlight("recalculate") : inflight' = inflight (-) SetToBag({req})) =>
          (~isRecalculating' /\ ~RecalculateDisabled')]_vars
  /\ (isRecalculating ~> ~isRecalculating)

\* a recalculation was submitted and rejected, and the page is no longer
\* recalculating
C25_Witness ==
  /\ error = FailedToRecalculate
  /\ property # Undefined
  /\ {"api_data", "user_inputs"} \subseteq DOMAIN property
  /\ ~isRecalculating
  /\ InFlight("recalculate") = {}


\* C26: whenever the report is displayed, the snapshot is one of the responses
\* the service gives for the property that id names.
C26_SnapshotOfActiveProperty ==
  ReportRendered => (id \in PropertyIds /\ propertyDetail \in Responses(id))

(***************************************************************************)
(* C27: the key derived from a display name.                               *)
(***************************************************************************)
\* no two adjacent underscores, no leading and no trailing underscore
CleanKey(key) ==
  /\ key # ""
  /\ Ch(key, 1) # "_"
  /\ Ch(key, Len(key)) # "_"
  /\ \A i \in 1..(Len(key) - 1) : ~(Ch(key, i) = "_" /\ Ch(key, i + 1) = "_")

\* every display name of the registry is substituted by the override table
\* or has a derived key without adjacent, leading or trailing underscores
OverriddenOrClean ==
  \A name \in ItemNames :
    normalizedKey(name) \in DOMAIN keyMappings \/ CleanKey(normalizedKey(name))

EachCharacterReplaced ==
  \A name \in ItemNames :
    LET key   == normalizedKey(name)
        lower == toLowerCase(name)
    IN  /\ Len(key) = Len(name)
        /\ \A i \in 1..Len(name) :
              Ch(key, i) = IF Ch(lower, i) \in CharsOf(LowerLetters) \cup CharsOf(Digits)
                             THEN Ch(lower, i) ELSE "_"

\* the override table covers every 'user input' name whose derived key has
\* adjacent, leading or trailing underscores
OverridesCoverUserInputs ==
  \A item \in UserInputItems :
    /\ CleanKey(normalizedKey(item.name)) \/ normalizedKey(item.name) \in DOMAIN keyMappings
    /\ CleanKey(userInputKey(item.name))

C29_SaveSendsSnapshotInputs ==
  [][(SaveDefaultInputs /\ token # Null) =>
       /\ saveInputsBody = Get(propertyDetail.properties[1], "user_inputs")
       /\ \A item \in UserInputItems :
            HasPendingEdit(item.name) =>
              Get(saveInputsBody, userInputKey(item.name))
                = Get(Get(propertyDetail.properties[1], "user_inputs"), userInputKey(item.name))
       /\ modifiedValues' = modifiedValues]_vars

\* a save is in flight for a report that shows an edited 'user input' value
\* different from the entry that was sent
C29_Witness ==
  /\ ReportRendered
  /\ token # Null
  /\ InFlight("saveInputs") # {}
  /\ \E item \in UserInputItems :
       /\ HasPendingEdit(item.name)
       /\ userInputKey(item.name) \in DOMAIN saveInputsBody
       /\ inputValue(item, property, modifiedValues) = modifiedValues[modifiedKey(item.name)]
       /\ inputValue(item, property, modifiedValues) # saveInputsBody[userInputKey(item.name)]

(***************************************************************************)
(* C28: the resolver's key and the payload builder's key.                  *)
(***************************************************************************)
\* C28: for every 'user input' item of the registry, the key getValue reads
\* the snapshot's user inputs with is a key of the payload builder's table,
\* which reads the snapshot under that same key; so with no pending edits
\* the payload's entry is the value getValue returns for the item.
C28_ResolverAndPayloadKeysAgree ==
  LET payload == recalculatePayload
  IN  (ReportRendered /\ payload # Thrown) =>
        \A item \in UserInputItems :
          LET key == userInputKey(item.name)
          IN  /\ key \in DOMAIN userInputMappings
              /\ userInputMappings[key] = key
              /\ modifiedValues = EmptyObject => payload[key] = getValue(item, property)

\* a recalculation was requested with no pending edits from a snapshot whose
\* '2nd Mtg Interest Rate', read through an override, is stored and sent
C28_Witness ==
  /\ ReportRendered
  /\ modifiedValues = EmptyObject
  /\ recalculatePayload # Thrown
  /\ InFlight("recalculate") # {}
  /\ \E item \in UserInputItems :
       /\ item.name = "2nd Mtg Interest Rate"
       /\ userInputKey(item.name) = "second_mtg_interest_rate"
       /\ getValue(item, property) # Num(0)
       /\ recalculatePayload["second_mtg_interest_rate"] = getValue(item, property)

(***************************************************************************)
(* The address box of the home page (pages/index.tsx): typing, the         *)
(* debounced autocomplete request and its answers, and the keyboard.  The  *)
(* search page (pages/search/index.tsx, lines 189-239 and 463-513) has the *)
(* same handleAutocomplete, handleAddressChange, handleKeyDown and         *)
(* handleBlur, statement for statement.                                    *)
(***************************************************************************)
HomeRoute == "/"

SearchRoute == "/search"

\* the autocomplete requests awaiting their response at one time
MaxAutocompletes == 2

\* what the user types into the address box
AddressTexts == {"", "   ", "bo", "bos", "boston"}

Suggestion(area_type, line, city) ==
  [area_type |-> area_type, line |-> line, city |-> city, state_code |-> Str("MA"),
   postal_code |-> Undefined, country |-> Str("USA")]

\* response.data.autocomplete of the location service
AutocompleteAnswers ==
  { <<>>,
    <<Suggestion(Str("city"), Undefined, Str("Boston"))>>,
    <<Suggestion(Str("state"), Undefined, Undefined),
      Suggestion(Str("city"), Undefined, Str("Boston"))>>,
    <<Suggestion(Str("city"), Undefined, Str("Boston")),
      Suggestion(Str("school"), Undefined, Str("Boston")),
      Suggestion(Str("address"), Str("1 Boston St"), Str("Salem")),
      Suggestion(Undefined, Undefined, Str("Bostonia"))>> }

\* .filter(item => !['state', 'school', 'school_district'].includes(item.area_type || ''))
RECURSIVE filterSuggestions(_)
filterSuggestions(items) ==
  IF items = <<>> THEN <<>>
  ELSE LET item == Head(items)
           kept == OrElse(item.area_type, Str(""))
                     \notin {Str("state"), Str("school"), Str("school_district")}
       IN  (IF kept THEN <<item>> ELSE <<>>) \o filterSuggestions(Tail(items))

\* !input.trim()
IsBlank(input) == \A i \in 1..Len(input) : Ch(input, i) = " "

\* suggestions[i], from 0: undefined outside the list
SuggestionAt(i) ==
  IF i >= 0 /\ i < Len(suggestions) THEN suggestions[i + 1] ELSE Undefined

\* the page of the address box after its first render
HomeSpecInit ==
  /\ id = Undefined
  /\ propertyDetail = Null
  /\ isLoading = TRUE
  /\ isRecalculating = FALSE
  /\ error = Null
  /\ modifiedValues = EmptyObject
  /\ token = Null
  /\ route = HomeRoute
  /\ inflight = EmptyBag
  /\ MypageInit
  /\ HomeInit

\* what no handler of the address box writes
HomeFrame ==
  UNCHANGED <<id, propertyDetail, isLoading, isRecalculating, error, modifiedValues,
              token, inflight, mypageVars>>

\* onFocus
Focus ==
  /\ route = HomeRoute
  /\ ~focused
  /\ focused' = TRUE
  /\ showSuggestions' = TRUE
  /\ UNCHANGED <<address, suggestions, selectedIndex, debounced, autocompletes,
                 blurTimeout, selected, route>>
  /\ HomeFrame

\* onBlur: the list is hidden 200 ms later
handleBlur ==
  /\ route = HomeRoute
  /\ focused
  /\ focused' = FALSE
  /\ blurTimeout' = TRUE
  /\ UNCHANGED <<address, suggestions, showSuggestions, selectedIndex, debounced,
                 autocompletes, selected, route>>
  /\ HomeFrame

\* the timer of handleBlur fires
BlurTimeoutElapsed ==
  /\ route = HomeRoute
  /\ blurTimeout
  /\ blurTimeout' = FALSE
  /\ showSuggestions' = FALSE
  /\ selectedIndex' = -1
  /\ UNCHANGED <<address, suggestions, debounced, autocompletes, selected, focused, route>>
  /\ HomeFrame

\* a keystroke that changes the text: the debounce timer is restarted with it
handleAddressChange(value) ==
  /\ route = HomeRoute
  /\ focused
  /\ value # address
  /\ address' = value
  /\ selectedIndex' = -1
  /\ debounced' = Str(value)
  /\ UNCHANGED <<suggestions, showSuggestions, autocompletes, blurTimeout, selected,
                 focused, route>>
  /\ HomeFrame

\* 300 ms after the last keystroke: handleAutocomplete up to its await
handleAutocomplete ==
  /\ route = HomeRoute
  /\ debounced # Null
  /\ debounced' = Null
  /\ IF IsBlank(debounced.str) \/ Len(debounced.str) < 3
       THEN /\ suggestions' = <<>>
            /\ UNCHANGED autocompletes
       ELSE /\ debounced.str \in autocompletes \/ Cardinality(autocompletes) < MaxAutocompletes
            /\ autocompletes' = autocompletes \cup {debounced.str}
            /\ UNCHANGED suggestions
  /\ UNCHANGED <<address, showSuggestions, selectedIndex, blurTimeout, selected, focused,
                 route>>
  /\ HomeFrame

\* the request resolves: handleAutocomplete after its await
AutocompleteSuccess(input, answer) ==
  /\ route = HomeRoute
  /\ input \in autocompletes
  /\ autocompletes' = autocompletes \ {input}
  /\ suggestions' = filterSuggestions(answer)
  /\ showSuggestions' = TRUE
  /\ UNCHANGED <<address, selectedIndex, debounced, blurTimeout, selected, focused, route>>
  /\ HomeFrame

\* the request rejects: the catch block
AutocompleteFailure(input) ==
  /\ route = HomeRoute
  /\ input \in autocompletes
  /\ autocompletes' = autocompletes \ {input}
  /\ suggestions' = <<>>
  /\ UNCHANGED <<address, showSuggestions, selectedIndex, debounced, blurTimeout, selected,
                 focused, route>>
  /\ HomeFrame

\* handleSearch: the search page is opened for a text that is not blank
handleSearch == route' = IF IsBlank(address) THEN route ELSE SearchRoute

\* handleSelectSuggestion up to its first await.  Reading area_type of
\* undefined throws inside the async function: nothing is set and nothing is
\* opened.  An address is looked up first; anything else opens the search page.
handleSelectSuggestion(suggestion, hidden) ==
  /\ selected' = suggestion
  /\ IF suggestion = Undefined
       THEN /\ showSuggestions' = hidden
            /\ UNCHANGED route
       ELSE IF suggestion.area_type = Str("address")
         THEN /\ showSuggestions' = FALSE
              /\ UNCHANGED route
         ELSE /\ showSuggestions' = hidden
              /\ route' = SearchRoute

\* the lookup of a selected address ends: the property page or the search
\* page is opened, or the catch block hides the list
SelectionSettles(outcome) ==
  /\ route = HomeRoute
  /\ selected \notin {Null, Undefined}
  /\ selected.area_type = Str("address")
  /\ selected' = Null
  /\ CASE outcome = "found" -> route' = PropertyRoute /\ UNCHANGED showSuggestions
       [] outcome = "none"  -> route' = SearchRoute /\ UNCHANGED showSuggestions
       [] OTHER             -> showSuggestions' = FALSE /\ UNCHANGED route
  /\ UNCHANGED <<address, suggestions, selectedIndex, debounced, autocompletes, blurTimeout,
                 focused>>
  /\ HomeFrame

\* a click on a row of the list
handleSuggestionClick(i) ==
  /\ route = HomeRoute
  /\ showSuggestions
  /\ i \in 0..(Len(suggestions) - 1)
  /\ blurTimeout' = FALSE
  /\ handleSelectSuggestion(SuggestionAt(i), showSuggestions)
  /\ UNCHANGED <<address, suggestions, selectedIndex, debounced, autocompletes, focused>>
  /\ HomeFrame

Keys == {"ArrowDown", "ArrowUp", "Enter", "Escape"}

\* a key pressed in the address box
handleKeyDown(key) ==
  /\ route = HomeRoute
  /\ focused
  /\ IF ~showSuggestions \/ Len(suggestions) = 0
       THEN /\ key = "Enter"
            /\ handleSearch
            /\ showSuggestions' = FALSE
            /\ UNCHANGED <<selectedIndex, selected>>
       ELSE CASE key = "ArrowDown" ->
                   /\ selectedIndex' = IF selectedIndex < Len(suggestions) - 1
                                         THEN selectedIndex + 1 ELSE selectedIndex
                   /\ UNCHANGED <<showSuggestions, selected, route>>
              [] key = "ArrowUp" ->
                   /\ selectedIndex' = IF selectedIndex > 0 THEN selectedIndex - 1 ELSE -1
                   /\ UNCHANGED <<showSuggestions, selected, route>>
              [] key = "Enter" ->
                   /\ IF selectedIndex >= 0
                        THEN handleSelectSuggestion(SuggestionAt(selectedIndex), showSuggestions)
                        ELSE /\ handleSearch
                             /\ showSuggestions' = FALSE
                             /\ UNCHANGED selected
                   /\ selectedIndex' = -1
              [] OTHER ->
                   /\ showSuggestions' = FALSE
                   /\ selectedIndex' = -1
                   /\ UNCHANGED <<selected, route>>
  /\ UNCHANGED <<address, suggestions, debounced, autocompletes, blurTimeout, focused>>
  /\ HomeFrame

HomeNext ==
  \/ Focus
  \/ handleBlur
  \/ BlurTimeoutElapsed
  \/ \E value \in AddressTexts : handleAddressChange(value)
  \/ handleAutocomplete
  \/ \E input \in autocompletes : \E answer \in AutocompleteAnswers :
       AutocompleteSuccess(input, answer)
  \/ \E input \in autocompletes : AutocompleteFailure(input)
  \/ \E key \in Keys : handleKeyDown(key)
  \/ \E i \in 0..3 : handleSuggestionClick(i)
  \/ \E outcome \in {"found", "none", "error"} : SelectionSettles(outcome)

HomeSpec == HomeSpecInit /\ [][HomeNext]_vars

\* C30: on the home page the highlighted index is at least -1 and less than
\* the number of suggestions, and Enter never selects a suggestion that does
\* not exist (handleSelectSuggestion is never called with undefined).
C30_IndexWithinSuggestions ==
  route = HomeRoute =>
    /\ -1 <= selectedIndex
    /\ selectedIndex < Len(suggestions)
    /\ selected # Undefined

(***************************************************************************)
(* The investment parameters of the account page (pages/mypage.tsx): the   *)
(* service speaks snake_case, the page works with camelCase, and the two   *)
(* converters translate every mapping received and sent.                   *)
(***************************************************************************)
\* a JavaScript object and an array, apart from the scalars
Obj(f) == [object |-> f]

Arr(items) == [array |-> items]

IsObj(v) == DOMAIN v = {"object"}

IsArr(v) == DOMAIN v = {"array"}

\* letter.toUpperCase()
UpperOf(c) ==
  IF c \in CharsOf(LowerLetters)
    THEN Ch(UpperLetters, CHOOSE i \in 1..Len(LowerLetters) : Ch(LowerLetters, i) = c)
    ELSE c

\* a conversion that drops the underscore and leaves the letter as it is
RECURSIVE snakeToCamelKeyKeepingCase(_)
snakeToCamelKeyKeepingCase(key) ==
  IF key = "" THEN ""
  ELSE IF Ch(key, 1) = "_" /\ Len(key) >= 2 /\ Ch(key, 2) \in CharsOf(LowerLetters)
    THEN Ch(key, 2) \o snakeToCamelKeyKeepingCase(SubSeq(key, 3, Len(key)))
    ELSE Ch(key, 1) \o snakeToCamelKeyKeepingCase(SubSeq(key, 2, Len(key)))

\* key.replace(/_([a-z])/g, (_, letter) => letter.toUpperCase())
RECURSIVE snakeToCamelKey(_)
snakeToCamelKey(key) ==
  IF key = "" THEN ""
  ELSE IF Ch(key, 1) = "_" /\ Len(key) >= 2 /\ Ch(key, 2) \in CharsOf(LowerLetters)
    THEN UpperOf(Ch(key, 2)) \o snakeToCamelKey(SubSeq(key, 3, Len(key)))
    ELSE Ch(key, 1) \o snakeToCamelKey(SubSeq(key, 2, Len(key)))

\* key.replace(/[A-Z]/g, letter => `_${letter.toLowerCase()}`)
camelToSnakeKey(key) ==
  ReplaceChars(key, [c \in CharsOf(key) |->
                       IF c \in CharsOf(UpperLetters) THEN "_" \o LowerOf(c) ELSE c])

\* the form startEditingParams opens when no parameters are stored
DefaultParamsForm ==
  Obj(   ("vacancyRate" :> Num(5 * Unit))
      @@ ("managementRate" :> Num(10 * Unit))
      @@ ("advertisingCostPerVacancy" :> Num(100 * Unit))
      @@ ("repairs" :> Num(5000 * Unit))
      @@ ("repairsContingency" :> Num(0))
      @@ ("lenderFee" :> Num(10000 * Unit))
      @@ ("brokerFee" :> Num(500 * Unit))
      @@ ("environmentals" :> Num(0))
      @@ ("inspections" :> Num(1300 * Unit))
      @@ ("appraisals" :> Num(1000 * Unit))
      @@ ("misc" :> Num(500 * Unit))
      @@ ("legal" :> Num(4000 * Unit))
      @@ ("mtgAmortizationPeriod" :> Num(30 * Unit))
      @@ ("firstMtgInterestRate" :> Num(65 * (Unit \div 10)))
      @@ ("firstMtgAmortizationPeriod" :> Num(30 * Unit))
      @@ ("firstMtgCMHCFee" :> Num(0))
      @@ ("secondMtgPrinciple" :> Num(0))
      @@ ("secondMtgInterestRate" :> Num(12 * Unit))
      @@ ("secondMtgAmortization" :> Num(9999 * Unit))
      @@ ("interestOnlyPrinciple" :> Num(0))
      @@ ("interestOnlyRate" :> Num(0))
      @@ ("otherMonthlyFinancing" :> Num(0)))

\* the names of the form's inputs that the user changes
ParamNames == {"vacancyRate", "secondMtgInterestRate"}

\* the registry's keys into user_inputs and api_data
SnakeKeys ==
  {userInputKey(item.name) : item \in UserInputItems} \cup ApiDataKeys \cup {"address"}

\* the same keys as the page holds them, and the keys of its own form
CamelKeys ==
  {snakeToCamelKey(key) : key \in SnakeKeys} \cup DOMAIN DefaultParamsForm.object

\* the keys the service can be sent, and the two conversions tabulated over
\* the keys that occur
WireKeys == SnakeKeys \cup {camelToSnakeKey(key) : key \in CamelKeys}

snakeToCamelKeys == [key \in WireKeys |-> snakeToCamelKey(key)]

camelToSnakeKeys == [key \in CamelKeys |-> camelToSnakeKey(key)]

camelKeyOf(key) ==
  IF key \in DOMAIN snakeToCamelKeys THEN snakeToCamelKeys[key] ELSE snakeToCamelKey(key)

snakeKeyOf(key) ==
  IF key \in DOMAIN camelToSnakeKeys THEN camelToSnakeKeys[key] ELSE camelToSnakeKey(key)

\* Scalars and null pass through, arrays are mapped, and every key of an
\* object is converted.  Of two keys that convert to one key the later in
\* the object's key order wins in the code; a mapping here has no key
\* order, and no mapping below has two such keys.
RECURSIVE convertSnakeToCamel(_)
convertSnakeToCamel(obj) ==
  IF IsArr(obj)
    THEN Arr([i \in DOMAIN obj.array |-> convertSnakeToCamel(obj.array[i])])
  ELSE IF IsObj(obj)
    THEN Obj([camelKey \in {camelKeyOf(key) : key \in DOMAIN obj.object} |->
                convertSnakeToCamel(
                  obj.object[CHOOSE key \in DOMAIN obj.object :
                               camelKeyOf(key) = camelKey])])
  ELSE obj

RECURSIVE convertCamelToSnake(_)
convertCamelToSnake(obj) ==
  IF IsArr(obj)
    THEN Arr([i \in DOMAIN obj.array |-> convertCamelToSnake(obj.array[i])])
  ELSE IF IsObj(obj)
    THEN Obj([snakeKey \in {snakeKeyOf(key) : key \in DOMAIN obj.object} |->
                convertCamelToSnake(
                  obj.object[CHOOSE key \in DOMAIN obj.object :
                               snakeKeyOf(key) = snakeKey])])
  ELSE obj

MypageRoute == "/mypage"

\* the parameter updates awaiting their response at one time
MaxSubmitted == 1

\* a mapping with every key of the registry at once
AllKeysInputs == Obj([key \in SnakeKeys |-> Num(Len(key) * Unit)])

\* user_inputs or default_inputs as the service stores them: a few keys, and
\* keys at deeper levels
WireInputs ==
  { Obj(("vacancy_rate" :> Num(5 * Unit)) @@ ("second_mtg_interest_rate" :> Num(12 * Unit))),
    Obj(   ("first_mtg_cmhc_fee" :> Null)
        @@ ("less_pro_ration_of_rents" :>
              Arr(<<Obj("water_sewer" :> Str("monthly")), Num(7 * Unit),
                    Arr(<<Obj("fair_market_value" :> Num(Unit))>>)>>))
        @@ ("deposit_with_offer" :>
              Obj(("lawn_maintenance" :> Obj("bad_debts" :> Num(0)))
                  @@ ("gas" :> Undefined)))) }

\* the body of the response to GET /api/user/inputs
InputsResponses ==
  {[user_inputs |-> w] : w \in WireInputs}
    \cup {[default_inputs |-> w] : w \in WireInputs}
    \cup {EmptyObject}

\* what no handler of the parameters writes
MypageFrame ==
  UNCHANGED <<id, propertyDetail, isLoading, isRecalculating, error, modifiedValues,
              token, route, inflight, homeVars>>

\* the account page with its parameters tab open
MypageSpecInit ==
  /\ id = Undefined
  /\ propertyDetail = Null
  /\ isLoading = TRUE
  /\ isRecalculating = FALSE
  /\ error = Null
  /\ modifiedValues = EmptyObject
  /\ token = Str("token")
  /\ route = MypageRoute
  /\ inflight = EmptyBag
  /\ MypageInit
  /\ HomeInit

\* the stored parameters arrive: fetchUserData after its await
FetchUserInputsSuccess(data) ==
  /\ route = MypageRoute
  /\ userInputs' =
       IF ~Falsy(Get(data, "user_inputs")) THEN convertSnakeToCamel(data.user_inputs)
       ELSE IF ~Falsy(Get(data, "default_inputs")) THEN convertSnakeToCamel(data.default_inputs)
       ELSE Null
  /\ UNCHANGED <<paramsForm, isEditingParams, submitted>>
  /\ MypageFrame

\* the Edit button
startEditingParams ==
  /\ route = MypageRoute
  /\ ~isEditingParams
  /\ paramsForm' = IF userInputs # Null THEN userInputs ELSE DefaultParamsForm
  /\ isEditingParams' = TRUE
  /\ UNCHANGED <<userInputs, submitted>>
  /\ MypageFrame

\* the Cancel button
cancelEditingParams ==
  /\ route = MypageRoute
  /\ isEditingParams
  /\ isEditingParams' = FALSE
  /\ UNCHANGED <<userInputs, paramsForm, submitted>>
  /\ MypageFrame

\* the user changes an input of the form
handleParamsChange(name, value) ==
  /\ route = MypageRoute
  /\ isEditingParams
  /\ paramsForm' =
       IF paramsForm = Null THEN Null
       ELSE Obj([key \in DOMAIN paramsForm.object \cup {name} |->
                   IF key = name THEN OrElse(parseFloat(value), Num(0))
                   ELSE paramsForm.object[key]])
  /\ UNCHANGED <<userInputs, isEditingParams, submitted>>
  /\ MypageFrame

\* the form is submitted: handleParamsSubmit up to its await
handleParamsSubmit ==
  /\ route = MypageRoute
  /\ isEditingParams
  /\ paramsForm # Null
  /\ Cardinality(submitted) < MaxSubmitted
  /\ submitted' = submitted \cup {convertCamelToSnake(paramsForm)}
  /\ UNCHANGED <<userInputs, paramsForm, isEditingParams>>
  /\ MypageFrame

\* the update is accepted: the service answers with the parameters it stored,
\* or without any
ParamsSubmitSuccess(body, stored) ==
  /\ route = MypageRoute
  /\ body \in submitted
  /\ submitted' = submitted \ {body}
  /\ userInputs' = IF ~Falsy(stored) THEN convertSnakeToCamel(stored) ELSE userInputs
  /\ isEditingParams' = FALSE
  /\ UNCHANGED paramsForm
  /\ MypageFrame

\* the update is rejected: the catch block
ParamsSubmitFailure(body) ==
  /\ route = MypageRoute
  /\ body \in submitted
  /\ submitted' = submitted \ {body}
  /\ UNCHANGED <<userInputs, paramsForm, isEditingParams>>
  /\ MypageFrame

MypageNext ==
  \/ \E data \in InputsResponses : FetchUserInputsSuccess(data)
  \/ startEditingParams
  \/ cancelEditingParams
  \/ \E name \in ParamNames : \E value \in Texts : handleParamsChange(name, value)
  \/ handleParamsSubmit
  \/ \E body \in submitted : \E stored \in {body, Undefined} : ParamsSubmitSuccess(body, stored)
  \/ \E body \in submitted : ParamsSubmitFailure(body)

MypageSpec == MypageSpecInit /\ [][MypageNext]_vars

\* the two key conversions undo each other on the registry's keys: snake to
\* camel and back on the keys the service uses, camel to snake and back on the
\* keys the page uses, each set being the other's image
KeyConvertersInverse ==
  /\ \A key \in SnakeKeys : camelToSnakeKey(snakeToCamelKey(key)) = key
  /\ \A key \in CamelKeys : snakeToCamelKey(camelToSnakeKey(key)) = key
  /\ \A key \in SnakeKeys : snakeToCamelKey(key) \in CamelKeys
  /\ {camelToSnakeKey(snakeToCamelKey(key)) : key \in SnakeKeys} = SnakeKeys

\* every mapping of the service converted to the page's casing and back, and
\* forth again, is unchanged at every level
WireInputsRoundTrip ==
  \A w \in WireInputs \cup {AllKeysInputs} :
    /\ convertCamelToSnake(convertSnakeToCamel(w)) = w
    /\ convertSnakeToCamel(convertCamelToSnake(convertSnakeToCamel(w)))
         = convertSnakeToCamel(w)

\* C22: a mapping the page holds (the parameters shown, the form), converted
\* to wire format and back, is the same mapping, with the same keys and the
\* same values at every level; a body sent, converted to the page's casing
\* and back, is the same body; and on the registry's keys the two key
\* conversions are inverses of each other.
C22_WireRoundTrip ==
  /\ KeyConvertersInverse
  /\ WireInputsRoundTrip
  /\ userInputs # Null => convertSnakeToCamel(convertCamelToSnake(userInputs)) = userInputs
  /\ paramsForm # Null => convertSnakeToCamel(convertCamelToSnake(paramsForm)) = paramsForm
  /\ \A body \in submitted : convertCamelToSnake(convertSnakeToCamel(body)) = body

\* parameters with nested mappings were received, opened in the form, edited,
\* sent and stored: what the page shows is what the form held
C22_Witness ==
  /\ userInputs # Null
  /\ userInputs = paramsForm
  /\ ~isEditingParams
  /\ submitted = {}
  /\ Get(userInputs.object, "vacancyRate") = Num(6 * Unit)
  /\ "firstMtgCmhcFee" \in DOMAIN userInputs.object
  /\ IsArr(userInputs.object["lessProRationOfRents"])
  /\ DOMAIN userInputs.object["depositWithOffer"].object = {"lawnMaintenance", "gas"}

=============================================================================
